---- MODULE Spec2Model ----
(***************************************************************************)
(* One invocation of the ODBC bridge scripts of TallySyncPro:              *)
(*   src/src/python/pyodbc_connector.py  (commands test/query/drivers/     *)
(*                                        check)                           *)
(*   src/scripts/pyodbc_fallback.py      (connection string + query)       *)
(* The state is the process's position (pc), its arguments, the locals of  *)
(* the running handler, the connection handle, what was written to         *)
(* standard output, the exit status, and the record of the calls made to   *)
(* the ODBC driver.  Every call into the driver either returns or raises   *)
(* one of the exceptions of Raisable.                                      *)
(***************************************************************************)
EXTENDS Integers, Sequences, FiniteSets, TLC

VARIABLES
    script,            \* which script runs
    argv,              \* sys.argv (argv[1] is the script name)
    PYODBC_AVAILABLE,  \* outcome of "import pyodbc"
    pc,                \* position in the script
    command,           \* main: sys.argv[1].lower()
    connection,        \* self.connection / cnxn: "None", "open", "closed"
    calls,             \* the driver calls made so far, with their outcomes
    exc,               \* the exception being handled or propagating
    result,            \* main: result / the handler's return value
    pending,           \* execute_query: what the finally clause resumes
    columns,           \* execute_query: columns
    rows,              \* execute_query: rows
    result_data,       \* execute_query: result_data / fallback: data
    stdout,            \* the envelopes printed so far
    exit_status        \* the process exit status (-1 while running)

vars == <<script, argv, PYODBC_AVAILABLE, pc, command, connection, calls, exc,
          result, pending, columns, rows, result_data, stdout, exit_status>>

(***************************************************************************)
(* Bound of the model: the most rows a fetch returns.                      *)
(***************************************************************************)
MaxRows == 2

(***************************************************************************)
(* Strings the code inspects character by character are sequences of       *)
(* characters; str.lower() maps every upper-case letter to its lower-case  *)
(* letter and leaves the rest alone.                                       *)
(***************************************************************************)
UpperLetters == <<"A","B","C","D","E","F","G","H","I","J","K","L","M",
                  "N","O","P","Q","R","S","T","U","V","W","X","Y","Z">>
LowerLetters == <<"a","b","c","d","e","f","g","h","i","j","k","l","m",
                  "n","o","p","q","r","s","t","u","v","w","x","y","z">>

LowerChar(c) ==
    IF \E i \in 1..Len(UpperLetters) : UpperLetters[i] = c
    THEN LowerLetters[CHOOSE i \in 1..Len(UpperLetters) : UpperLetters[i] = c]
    ELSE c

Lower(s) == [i \in 1..Len(s) |-> LowerChar(s[i])]

\* Python's "sub in s" for strings.
Contains(s, sub) ==
    \E k \in 0..(Len(s) - Len(sub)) :
        \A j \in 1..Len(sub) : s[k + j] = sub[j]

CmdTest    == <<"t","e","s","t">>
CmdQuery   == <<"q","u","e","r","y">>
CmdDrivers == <<"d","r","i","v","e","r","s">>
CmdCheck   == <<"c","h","e","c","k">>

ScriptName == <<"p","y">>
ConnStr    == <<"D","S","N","=","T">>
SqlText    == <<"S","E","L">>

\* The command words an invocation is tried with.
CommandWords ==
    { CmdTest, CmdQuery, CmdDrivers, CmdCheck,
      <<"T","E","S","T">>, <<"C","h","e","c","k">>,
      <<"s","y","n","c">>, <<"t","e","s","t","s">>, <<>> }

ConnectorArgvs ==
    {<<ScriptName>>}
    \cup {<<ScriptName, c>> : c \in CommandWords}
    \cup {<<ScriptName, c, ConnStr>> : c \in CommandWords}
    \cup {<<ScriptName, c, ConnStr, SqlText>> : c \in CommandWords}

FallbackArgvs ==
    {<<ScriptName>>, <<ScriptName, ConnStr>>, <<ScriptName, ConnStr, SqlText>>}

(***************************************************************************)
(* Exceptions.  pyodbc.ProgrammingError is a subclass of pyodbc.Error;     *)
(* "Exception" stands for any exception that is not a pyodbc.Error.  args  *)
(* is the exception's args tuple: empty, a SQLSTATE string, or an object   *)
(* json cannot serialize.                                                  *)
(***************************************************************************)
OK    == [cls |-> "ok",   args |-> <<>>]
NoExc == [cls |-> "none", args |-> <<>>]

ExcArgs == {<<>>, <<"HY000">>, <<"OBJECT">>}

Raisable == [cls : {"Error", "ProgrammingError", "Exception"}, args : ExcArgs]

Outcomes == {OK} \cup Raisable

IsPyodbcError(e) == e.cls \in {"Error", "ProgrammingError"}

IsProgrammingError(e) == e.cls = "ProgrammingError"

IndexError == [cls |-> "IndexError", args |-> <<>>]
TypeError  == [cls |-> "TypeError",  args |-> <<"not JSON serializable">>]
ConversionError == [cls |-> "Exception", args |-> <<"__str__ failed">>]

\* str(e): the message of the exception.
Str(e) ==
    CASE e.cls = "Error"            -> "driver error"
      [] e.cls = "ProgrammingError" -> "no results to fetch"
      [] e.cls = "IndexError"       -> "tuple index out of range"
      [] e.cls = "TypeError"        -> "Object is not JSON serializable"
      [] OTHER                      -> "unexpected error"

\* f"Script error: {str(e)}"
ScriptErrorText(e) ==
    CASE e.cls = "Error"            -> "Script error: driver error"
      [] e.cls = "ProgrammingError" -> "Script error: no results to fetch"
      [] e.cls = "IndexError"       -> "Script error: tuple index out of range"
      [] e.cls = "TypeError"        -> "Script error: Object is not JSON serializable"
      [] OTHER                      -> "Script error: unexpected error"

Call(op, arg, out) == [op |-> op, arg |-> arg, out |-> out.cls]

(***************************************************************************)
(* Values a driver row can hold and their JSON-safe form.                  *)
(***************************************************************************)
Values == {"None", "int", "Decimal"}

IsPrimitive(v) == v \in {"int", "float", "str", "bool"}

StrOf(v) == IF IsPrimitive(v) \/ v = "None" THEN v ELSE "str"

ColumnNames == {"a", "b"}

\* A statement describes up to as many columns as there are names, so that
\* both distinct and repeated names occur.
MaxCols == Cardinality(ColumnNames)

SeqsOfLen(S, n) == [1..n -> S]

SeqsUpTo(S, n) == UNION {SeqsOfLen(S, k) : k \in 0..n}

NoDescription == [present |-> FALSE, names |-> <<>>]

Descriptions ==
    {NoDescription}
    \cup {[present |-> TRUE, names |-> n] :
             n \in UNION {SeqsOfLen(ColumnNames, k) : k \in 1..MaxCols}}

\* The rows a fetchall can return for a statement with this description: a
\* row has one value per described column.
RowSets(desc) ==
    IF desc.present
    THEN SeqsUpTo(SeqsOfLen(Values, Len(desc.names)), MaxRows)
    ELSE {<<>>}

\* pyodbc.drivers(): the driver names installed on the machine.
DriverTally == <<"T","a","l","l","y">>
DriverOdbc  == <<"O","D","B","C"," ","1","7">>
DriverOther == <<"S","Q","L">>

DriverLists ==
    {<<>>, <<DriverOther>>, <<DriverTally>>, <<DriverOther, DriverOdbc, DriverTally>>}

(***************************************************************************)
(* Python dicts keep insertion order and one entry per key: a dict is a    *)
(* sequence of <<key, value>> pairs with distinct keys.                    *)
(***************************************************************************)
DictSet(d, k, v) ==
    IF \E i \in 1..Len(d) : d[i][1] = k
    THEN [i \in 1..Len(d) |-> IF d[i][1] = k THEN <<k, v>> ELSE d[i]]
    ELSE Append(d, <<k, v>>)

Keys(d) == [i \in 1..Len(d) |-> d[i][1]]

RECURSIVE RowDictFrom(_, _, _, _)
RowDictFrom(cols, row, i, d) ==
    IF i > Len(row) THEN d
    ELSE RowDictFrom(cols, row, i + 1,
             IF i <= Len(cols)
             THEN DictSet(d, cols[i],
                      IF row[i] = "None" THEN "None"
                      ELSE IF IsPrimitive(row[i]) THEN row[i]
                      ELSE StrOf(row[i]))
             ELSE d)

RowDict(cols, row) == RowDictFrom(cols, row, 1, <<>>)

ConvertRows(cols, rs) == [i \in 1..Len(rs) |-> RowDict(cols, rs[i])]

\* str(value) is reached for a value that is neither None nor a primitive.
NeedsStr(rs) ==
    \E i \in 1..Len(rs) : \E j \in 1..Len(rs[i]) :
        rs[i][j] # "None" /\ ~IsPrimitive(rs[i][j])

\* dict(zip(cols, row))
RECURSIVE ZipDictFrom(_, _, _, _)
ZipDictFrom(cols, row, i, d) ==
    IF i > Len(row) \/ i > Len(cols) THEN d
    ELSE ZipDictFrom(cols, row, i + 1, DictSet(d, cols[i], row[i]))

ZipDict(cols, row) == ZipDictFrom(cols, row, 1, <<>>)

(***************************************************************************)
(* The envelopes of pyodbc_connector.py.                                   *)
(***************************************************************************)
NoResult == [unset |-> TRUE]

\* The arguments of sys.exit in main.
UsageExit       == 1
ScriptErrorExit == 1

InstallHint == "pyodbc module not available. Install with: pip install pyodbc"

UsageMain  == "Usage: python pyodbc_connector.py <command> [args...]"
UsageTest  == "Usage: python pyodbc_connector.py test <connection_string>"
UsageQuery == "Usage: python pyodbc_connector.py query <connection_string> <sql_query>"
UnknownCommandText ==
    "Unknown command: {command}. Available commands: test, query, drivers, check"

UsageEnvelope(text) ==
    [success |-> FALSE, error |-> text, pyodbc_available |-> PYODBC_AVAILABLE]

TestUnavailable ==
    [success |-> FALSE, connected |-> FALSE, method |-> "pyodbc",
     error |-> InstallHint]

HandlerUnavailable ==
    [success |-> FALSE, method |-> "pyodbc", error |-> InstallHint]

TestSuccess ==
    [success |-> TRUE, connected |-> TRUE, method |-> "pyodbc",
     message |-> "Connection successful"]

\* getattr(e, 'args', [None])[0]: defined when args is not empty.
ErrorCodeRaises(e) == IsPyodbcError(e) /\ Len(e.args) = 0

ErrorCode(e) == IF IsPyodbcError(e) THEN e.args[1] ELSE "None"

TestFailure(e) ==
    [success |-> FALSE, connected |-> FALSE, method |-> "pyodbc",
     error |-> Str(e), error_code |-> ErrorCode(e)]

QuerySuccess(data, cols) ==
    [success |-> TRUE, data |-> data, columns |-> cols,
     row_count |-> Len(data), method |-> "pyodbc"]

QueryFailure(e) ==
    [success |-> FALSE, error |-> Str(e), error_code |-> ErrorCode(e),
     method |-> "pyodbc"]

CheckEnvelope ==
    [success |-> TRUE, pyodbc_available |-> PYODBC_AVAILABLE,
     python_version |-> "sys.version", method |-> "pyodbc"]

ScriptError(e) ==
    [success |-> FALSE, error |-> ScriptErrorText(e),
     traceback |-> "traceback.format_exc()",
     pyodbc_available |-> PYODBC_AVAILABLE]

\* json.dumps raises TypeError on a value that is not a JSON scalar.
JsonScalar(v) == v = "None" \/ IsPrimitive(v) \/ v \in {"HY000"}

DictSerializable(d) == \A i \in 1..Len(d) : JsonScalar(d[i][2])

JsonSerializable(env) ==
    /\ "error_code" \in DOMAIN env => JsonScalar(env.error_code)
    /\ "data" \in DOMAIN env =>
          \A i \in 1..Len(env.data) : DictSerializable(env.data[i])

(***************************************************************************)
(* Initial state: the interpreter has loaded the script and is about to    *)
(* call main().  pyodbc_fallback.py imports pyodbc unconditionally, so its *)
(* main only runs with pyodbc present.                                     *)
(***************************************************************************)
Init ==
    /\ script \in {"pyodbc_connector", "pyodbc_fallback"}
    /\ PYODBC_AVAILABLE \in BOOLEAN
    /\ script = "pyodbc_fallback" => PYODBC_AVAILABLE
    /\ argv \in IF script = "pyodbc_connector" THEN ConnectorArgvs ELSE FallbackArgvs
    /\ pc = "main"
    /\ command = <<>>
    /\ connection = "None"
    /\ calls = <<>>
    /\ exc = NoExc
    /\ result = NoResult
    /\ pending = "none"
    /\ columns = <<>>
    /\ rows = <<>>
    /\ result_data = <<>>
    /\ stdout = <<>>
    /\ exit_status = -1

Locals == <<columns, rows, result_data>>
Process == <<script, argv, PYODBC_AVAILABLE>>

\* A raise inside a try block: control moves to the except clause `handler`.
Raise(e, handler) ==
    /\ exc' = e
    /\ pc' = handler

(***************************************************************************)
(* pyodbc_connector.py: main                                               *)
(***************************************************************************)

\* if len(sys.argv) < 2: print usage; sys.exit(1)
MainNoCommand ==
    /\ pc = "main" /\ script = "pyodbc_connector"
    /\ Len(argv) < 2
    /\ stdout' = Append(stdout, UsageEnvelope(UsageMain))
    /\ exit_status' = UsageExit
    /\ pc' = "exited"
    /\ UNCHANGED <<Process, command, connection, calls, exc, result, pending, Locals>>

\* command = sys.argv[1].lower(); the if/elif chain up to the handler call.
MainDispatch ==
    /\ pc = "main" /\ script = "pyodbc_connector"
    /\ Len(argv) >= 2
    /\ command' = Lower(argv[2])
    /\ IF command' = CmdTest
       THEN IF Len(argv) < 3
            THEN result' = UsageEnvelope(UsageTest) /\ pc' = "print"
            ELSE result' = result /\ pc' = "test_connection"
       ELSE IF command' = CmdQuery
       THEN IF Len(argv) < 4
            THEN result' = UsageEnvelope(UsageQuery) /\ pc' = "print"
            ELSE result' = result /\ pc' = "execute_query"
       ELSE IF command' = CmdDrivers
       THEN result' = result /\ pc' = "list_drivers"
       ELSE IF command' = CmdCheck
       THEN result' = CheckEnvelope /\ pc' = "print"
       ELSE result' = UsageEnvelope(UnknownCommandText) /\ pc' = "print"
    /\ UNCHANGED <<Process, connection, calls, exc, pending, Locals, stdout, exit_status>>

\* print(json.dumps(result)); main then returns and the process exits 0.
\* json.dumps raises before anything is written.
PrintResult ==
    /\ pc = "print"
    /\ IF JsonSerializable(result)
       THEN /\ stdout' = Append(stdout, result)
            /\ exit_status' = 0
            /\ pc' = "exited"
            /\ exc' = exc
       ELSE /\ Raise(TypeError, "main_except")
            /\ UNCHANGED <<stdout, exit_status>>
    /\ UNCHANGED <<Process, command, connection, calls, result, pending, Locals>>

\* MainExcept with the print of the script-error envelope left out.
MainExceptSilent ==
    /\ pc = "main_except"
    /\ exit_status' = ScriptErrorExit
    /\ pc' = "exited"
    /\ UNCHANGED <<Process, command, connection, calls, exc, result, pending, Locals, stdout>>

\* except Exception as e: print the script-error envelope; sys.exit(1)
MainExcept ==
    /\ pc = "main_except"
    /\ stdout' = Append(stdout, ScriptError(exc))
    /\ exit_status' = ScriptErrorExit
    /\ pc' = "exited"
    /\ UNCHANGED <<Process, command, connection, calls, exc, result, pending, Locals>>

(***************************************************************************)
(* PyODBCConnector.test_connection                                         *)
(***************************************************************************)
Probe1 == "SELECT 1 as test"
Probe2 == "SELECT TOP 1 * FROM COMPANY"

TestFrame == <<Process, command, pending, Locals, stdout, exit_status>>

\* if not PYODBC_AVAILABLE: return the install hint
TestGuard ==
    /\ pc = "test_connection"
    /\ IF ~PYODBC_AVAILABLE
       THEN result' = TestUnavailable /\ pc' = "print"
       ELSE result' = result /\ pc' = "test_connect"
    /\ UNCHANGED <<TestFrame, connection, calls, exc>>

\* self.connection = pyodbc.connect(connection_string, timeout=10)
TestConnect ==
    /\ pc = "test_connect"
    /\ \E o \in Outcomes :
         /\ calls' = Append(calls, Call("connect", "", o))
         /\ IF o = OK
            THEN connection' = "open" /\ pc' = "test_cursor" /\ exc' = exc
            ELSE connection' = connection /\ Raise(o, "test_except")
    /\ UNCHANGED <<TestFrame, result>>

\* cursor = self.connection.cursor()
TestCursor ==
    /\ pc = "test_cursor"
    /\ \E o \in Outcomes :
         /\ calls' = Append(calls, Call("cursor", "", o))
         /\ IF o = OK
            THEN pc' = "test_probe1" /\ exc' = exc
            ELSE Raise(o, "test_except")
    /\ UNCHANGED <<TestFrame, result, connection>>

\* One call of the probe blocks: it returns, raises pyodbc.Error (caught by
\* the block's "except pyodbc.Error", control moves to `rejected`), or raises
\* anything else (the outer handler).
ProbeCall(at, op, sql, next, rejected) ==
    /\ pc = at
    /\ \E o \in Outcomes :
         /\ calls' = Append(calls, Call(op, sql, o))
         /\ IF o = OK
            THEN pc' = next /\ exc' = exc
            ELSE IF IsPyodbcError(o)
            THEN pc' = rejected /\ exc' = exc
            ELSE Raise(o, "test_except")
    /\ UNCHANGED <<TestFrame, result, connection>>

\* cursor.execute("SELECT 1 as test")
TestProbe1Execute ==
    ProbeCall("test_probe1", "execute", Probe1, "test_fetch1", "test_probe2")

\* result = cursor.fetchone()
TestProbe1Fetch ==
    ProbeCall("test_fetch1", "fetchone", Probe1, "test_cursor_close", "test_probe2")

\* TestProbe2Execute without the inner "except pyodbc.Error": a rejected
\* second probe reaches the outer handler.
TestProbe2ExecuteUncaught ==
    /\ pc = "test_probe2"
    /\ \E o \in Outcomes :
         /\ calls' = Append(calls, Call("execute", Probe2, o))
         /\ IF o = OK
            THEN pc' = "test_fetch2" /\ exc' = exc
            ELSE Raise(o, "test_except")
    /\ UNCHANGED <<TestFrame, result, connection>>

\* cursor.execute("SELECT TOP 1 * FROM COMPANY")
TestProbe2Execute ==
    ProbeCall("test_probe2", "execute", Probe2, "test_fetch2", "test_cursor_close")

\* result = cursor.fetchone()   (except pyodbc.Error: result = True)
TestProbe2Fetch ==
    ProbeCall("test_fetch2", "fetchone", Probe2, "test_cursor_close", "test_cursor_close")

\* cursor.close()
TestCursorClose ==
    /\ pc = "test_cursor_close"
    /\ \E o \in Outcomes :
         /\ calls' = Append(calls, Call("cursor.close", "", o))
         /\ IF o = OK
            THEN pc' = "test_connection_close" /\ exc' = exc
            ELSE Raise(o, "test_except")
    /\ UNCHANGED <<TestFrame, result, connection>>

\* self.connection.close(); return the success envelope
TestConnectionClose ==
    /\ pc = "test_connection_close"
    /\ \E o \in Outcomes :
         /\ calls' = Append(calls, Call("connection.close", "", o))
         /\ IF o = OK
            THEN /\ connection' = "closed"
                 /\ result' = TestSuccess
                 /\ pc' = "print"
                 /\ exc' = exc
            ELSE /\ Raise(o, "test_except")
                 /\ UNCHANGED <<connection, result>>
    /\ UNCHANGED TestFrame

\* except Exception as e: return the failure envelope.  Reading args[0] of
\* a pyodbc.Error with empty args raises IndexError out of the handler.
TestExcept ==
    /\ pc = "test_except"
    /\ IF ErrorCodeRaises(exc)
       THEN Raise(IndexError, "main_except") /\ result' = result
       ELSE result' = TestFailure(exc) /\ pc' = "print" /\ exc' = exc
    /\ UNCHANGED <<TestFrame, connection, calls>>

(***************************************************************************)
(* PyODBCConnector.execute_query                                           *)
(***************************************************************************)
QueryFrame == <<Process, command, stdout, exit_status>>

\* QueryGuard with the availability test left out.
QueryGuardMissing ==
    /\ pc = "execute_query"
    /\ result' = result /\ pc' = "query_connect"
    /\ UNCHANGED <<QueryFrame, connection, calls, exc, pending, Locals>>

\* if not PYODBC_AVAILABLE: return the install hint
QueryGuard ==
    /\ pc = "execute_query"
    /\ IF ~PYODBC_AVAILABLE
       THEN result' = HandlerUnavailable /\ pc' = "print"
       ELSE result' = result /\ pc' = "query_connect"
    /\ UNCHANGED <<QueryFrame, connection, calls, exc, pending, Locals>>

\* self.connection = pyodbc.connect(connection_string, timeout=30)
QueryConnect ==
    /\ pc = "query_connect"
    /\ \E o \in Outcomes :
         /\ calls' = Append(calls, Call("connect", "", o))
         /\ IF o = OK
            THEN connection' = "open" /\ pc' = "query_cursor" /\ exc' = exc
            ELSE connection' = connection /\ Raise(o, "query_except")
    /\ UNCHANGED <<QueryFrame, result, pending, Locals>>

\* cursor = self.connection.cursor()
QueryCursor ==
    /\ pc = "query_cursor"
    /\ \E o \in Outcomes :
         /\ calls' = Append(calls, Call("cursor", "", o))
         /\ IF o = OK
            THEN pc' = "query_execute" /\ exc' = exc
            ELSE Raise(o, "query_except")
    /\ UNCHANGED <<QueryFrame, result, pending, connection, Locals>>

\* cursor.execute(sql_query)
\* columns = [desc[0] for desc in cursor.description] if cursor.description else []
QueryExecute ==
    /\ pc = "query_execute"
    /\ \E o \in Outcomes :
         /\ calls' = Append(calls, Call("execute", "sql_query", o))
         /\ IF o = OK
            THEN /\ \E desc \in Descriptions :
                      columns' = (IF desc.present THEN desc.names ELSE <<>>)
                 /\ pc' = "query_fetchall"
                 /\ exc' = exc
            ELSE Raise(o, "query_except") /\ columns' = columns
    /\ UNCHANGED <<QueryFrame, result, pending, connection, rows, result_data>>

\* rows = cursor.fetchall()
QueryFetchall ==
    /\ pc = "query_fetchall"
    /\ \E o \in Outcomes :
         /\ calls' = Append(calls, Call("fetchall", "", o))
         /\ IF o = OK
            THEN /\ rows' \in RowSets([present |-> columns # <<>>, names |-> columns])
                 /\ pc' = "query_convert"
                 /\ exc' = exc
            ELSE Raise(o, "query_except") /\ rows' = rows
    /\ UNCHANGED <<QueryFrame, result, pending, connection, columns, result_data>>

\* The loop that converts rows to dictionaries; str(value) of a value that is
\* neither None nor a primitive may raise.
QueryConvert ==
    /\ pc = "query_convert"
    /\ \/ /\ result_data' = ConvertRows(columns, rows)
          /\ pc' = "query_cursor_close"
          /\ exc' = exc
       \/ /\ NeedsStr(rows)
          /\ Raise(ConversionError, "query_except")
          /\ result_data' = result_data
    /\ UNCHANGED <<QueryFrame, result, pending, connection, calls, columns, rows>>

\* cursor.close()
QueryCursorClose ==
    /\ pc = "query_cursor_close"
    /\ \E o \in Outcomes :
         /\ calls' = Append(calls, Call("cursor.close", "", o))
         /\ IF o = OK
            THEN pc' = "query_connection_close" /\ exc' = exc
            ELSE Raise(o, "query_except")
    /\ UNCHANGED <<QueryFrame, result, pending, connection, Locals>>

\* self.connection.close(); return the success envelope (the finally clause
\* runs before the return completes).
QueryConnectionClose ==
    /\ pc = "query_connection_close"
    /\ \E o \in Outcomes :
         /\ calls' = Append(calls, Call("connection.close", "", o))
         /\ IF o = OK
            THEN /\ connection' = "closed"
                 /\ result' = QuerySuccess(result_data, columns)
                 /\ pending' = "return"
                 /\ pc' = "query_finally"
                 /\ exc' = exc
            ELSE /\ Raise(o, "query_except")
                 /\ UNCHANGED <<connection, result, pending>>
    /\ UNCHANGED <<QueryFrame, Locals>>

\* except Exception as e: return the failure envelope, or IndexError from
\* args[0] of a pyodbc.Error with empty args; either way the finally clause
\* runs next.  The row locals are not read again.
QueryExcept ==
    /\ pc = "query_except"
    /\ IF ErrorCodeRaises(exc)
       THEN exc' = IndexError /\ pending' = "raise" /\ result' = result
       ELSE exc' = exc /\ pending' = "return" /\ result' = QueryFailure(exc)
    /\ pc' = "query_finally"
    /\ columns' = <<>> /\ rows' = <<>> /\ result_data' = <<>>
    /\ UNCHANGED <<QueryFrame, connection, calls>>

\* QueryFinally without the close (the shape of test_connection, which has
\* no finally clause).
QueryFinallyNoClose ==
    /\ pc = "query_finally"
    /\ pc' = (IF pending = "return" THEN "print" ELSE "main_except")
    /\ pending' = "none"
    /\ columns' = <<>> /\ rows' = <<>> /\ result_data' = <<>>
    /\ UNCHANGED <<QueryFrame, result, exc, connection, calls>>

\* finally: if self.connection: try: self.connection.close() except: pass
\* then the pending return or raise completes.
QueryFinally ==
    /\ pc = "query_finally"
    /\ IF connection # "None"
       THEN \E o \in Outcomes :
              /\ calls' = Append(calls, Call("connection.close", "finally", o))
              /\ connection' = (IF o = OK THEN "closed" ELSE connection)
       ELSE UNCHANGED <<connection, calls>>
    /\ pc' = (IF pending = "return" THEN "print" ELSE "main_except")
    /\ pending' = "none"
    /\ columns' = <<>> /\ rows' = <<>> /\ result_data' = <<>>
    /\ UNCHANGED <<QueryFrame, result, exc>>

(***************************************************************************)
(* PyODBCConnector.list_drivers                                            *)
(***************************************************************************)
IsTallyDriver(d) ==
    \/ Contains(Lower(d), <<"t","a","l","l","y">>)
    \/ Contains(Lower(d), <<"o","d","b","c">>)

DriversSuccess(drivers) ==
    [success |-> TRUE, all_drivers |-> drivers,
     tally_drivers |-> SelectSeq(drivers, IsTallyDriver),
     method |-> "pyodbc", pyodbc_available |-> TRUE]

DriversFailure(e) ==
    [success |-> FALSE, error |-> Str(e), method |-> "pyodbc"]

ListDrivers ==
    /\ pc = "list_drivers"
    /\ IF ~PYODBC_AVAILABLE
       THEN result' = HandlerUnavailable /\ calls' = calls
       ELSE \E o \in Outcomes :
              /\ calls' = Append(calls, Call("drivers", "", o))
              /\ IF o = OK
                 THEN \E ds \in DriverLists : result' = DriversSuccess(ds)
                 ELSE result' = DriversFailure(o)
    /\ pc' = "print"
    /\ UNCHANGED <<Process, command, connection, exc, pending, Locals, stdout, exit_status>>

(***************************************************************************)
(* pyodbc_fallback.py: main; the process exits with main's return value.   *)
(***************************************************************************)
FbFrame == <<Process, command, result, pending, columns, rows>>

FbUsageEnvelope == [success |-> FALSE, error |-> "Arguments: <connection_string> <query>"]

FbSuccess(data) == [success |-> TRUE, data |-> data]

FbFailure(e) == [success |-> FALSE, error |-> Str(e)]

\* if len(sys.argv) < 3: print usage; return 1
FbUsage ==
    /\ pc = "main" /\ script = "pyodbc_fallback"
    /\ IF Len(argv) < 3
       THEN /\ stdout' = Append(stdout, FbUsageEnvelope)
            /\ exit_status' = 1
            /\ pc' = "exited"
       ELSE /\ pc' = "fb_connect"
            /\ UNCHANGED <<stdout, exit_status>>
    /\ UNCHANGED <<FbFrame, connection, calls, exc, result_data>>

\* A driver call of the outer try block: it returns, or raises into
\* "except Exception", which reads none of the locals of the try block.
FbCall(at, op, arg, next) ==
    /\ pc = at
    /\ \E o \in Outcomes :
         /\ calls' = Append(calls, Call(op, arg, o))
         /\ IF o = OK
            THEN pc' = next /\ exc' = exc /\ result_data' = result_data
            ELSE Raise(o, "fb_except") /\ result_data' = <<>>

\* cnxn = pyodbc.connect(conn_str, timeout=10)
FbConnect ==
    /\ FbCall("fb_connect", "connect", "", "fb_cursor")
    /\ connection' = (IF pc' = "fb_cursor" THEN "open" ELSE connection)
    /\ UNCHANGED <<FbFrame, stdout, exit_status>>

\* cursor = cnxn.cursor()
FbCursor ==
    /\ FbCall("fb_cursor", "cursor", "", "fb_execute")
    /\ UNCHANGED <<FbFrame, connection, stdout, exit_status>>

\* cursor.execute(query)
FbExecute ==
    /\ FbCall("fb_execute", "execute", "query", "fb_fetchall")
    /\ UNCHANGED <<FbFrame, connection, stdout, exit_status>>

\* try: rows = cursor.fetchall(); cols = ...; data = [dict(zip(cols, row)) ...]
\* except pyodbc.ProgrammingError: data = []
FbFetchall ==
    /\ pc = "fb_fetchall"
    /\ \E o \in Outcomes :
         /\ calls' = Append(calls, Call("fetchall", "", o))
         /\ IF o = OK
            THEN /\ \E desc \in Descriptions : \E rs \in RowSets(desc) :
                      result_data' = [i \in 1..Len(rs) |-> ZipDict(desc.names, rs[i])]
                 /\ pc' = "fb_cursor_close"
                 /\ exc' = exc
            ELSE IF IsProgrammingError(o)
            THEN /\ result_data' = <<>>
                 /\ pc' = "fb_cursor_close"
                 /\ exc' = exc
            ELSE Raise(o, "fb_except") /\ result_data' = result_data
    /\ UNCHANGED <<FbFrame, connection, stdout, exit_status>>

\* cursor.close()
FbCursorClose ==
    /\ FbCall("fb_cursor_close", "cursor.close", "", "fb_connection_close")
    /\ UNCHANGED <<FbFrame, connection, stdout, exit_status>>

\* cnxn.close()
FbConnectionClose ==
    /\ FbCall("fb_connection_close", "connection.close", "", "fb_print")
    /\ connection' = (IF pc' = "fb_print" THEN "closed" ELSE connection)
    /\ UNCHANGED <<FbFrame, stdout, exit_status>>

\* print(json.dumps({"success": True, "data": data})); return 0
FbPrint ==
    /\ pc = "fb_print"
    /\ IF JsonSerializable(FbSuccess(result_data))
       THEN /\ stdout' = Append(stdout, FbSuccess(result_data))
            /\ exit_status' = 0
            /\ pc' = "exited"
            /\ exc' = exc
            /\ result_data' = result_data
       ELSE /\ Raise(TypeError, "fb_except")
            /\ result_data' = <<>>
            /\ UNCHANGED <<stdout, exit_status>>
    /\ UNCHANGED <<FbFrame, connection, calls>>

\* except Exception as e: print the failure envelope; return 2
FbExcept ==
    /\ pc = "fb_except"
    /\ stdout' = Append(stdout, FbFailure(exc))
    /\ exit_status' = 2
    /\ pc' = "exited"
    /\ UNCHANGED <<FbFrame, connection, calls, exc, result_data>>

Next ==
    \/ MainNoCommand
    \/ MainDispatch
    \/ PrintResult
    \/ MainExcept
    \/ TestGuard
    \/ TestConnect
    \/ TestCursor
    \/ TestProbe1Execute
    \/ TestProbe1Fetch
    \/ TestProbe2Execute
    \/ TestProbe2Fetch
    \/ TestCursorClose
    \/ TestConnectionClose
    \/ TestExcept
    \/ QueryGuard
    \/ QueryConnect
    \/ QueryCursor
    \/ QueryExecute
    \/ QueryFetchall
    \/ QueryConvert
    \/ QueryCursorClose
    \/ QueryConnectionClose
    \/ QueryExcept
    \/ QueryFinally
    \/ ListDrivers
    \/ FbUsage
    \/ FbConnect
    \/ FbCursor
    \/ FbExecute
    \/ FbFetchall
    \/ FbCursorClose
    \/ FbConnectionClose
    \/ FbPrint
    \/ FbExcept

Spec == Init /\ [][Next]_vars

(***************************************************************************)
(* What the record of driver calls shows.                                  *)
(***************************************************************************)
Connector == script = "pyodbc_connector"

ValidCommands == {CmdTest, CmdQuery, CmdDrivers, CmdCheck}

DriverErrors == {"Error", "ProgrammingError"}

ConnectOk == \E i \in 1..Len(calls) : calls[i].op = "connect" /\ calls[i].out = "ok"

\* A close of the connection was issued after the connect that opened it.
CloseIssued ==
    \E i \in 1..Len(calls) : \E j \in (i + 1)..Len(calls) :
        /\ calls[i].op = "connect" /\ calls[i].out = "ok"
        /\ calls[j].op = "connection.close"

CountCalls(op) == Cardinality({i \in 1..Len(calls) : calls[i].op = op})

CountExecutes(sql) ==
    Cardinality({i \in 1..Len(calls) : calls[i].op = "execute" /\ calls[i].arg = sql})

IsProbeCall(c) == c.op \in {"execute", "fetchone"}

\* Raised(op): the call of op raised.
Raised(op) == \E i \in 1..Len(calls) : calls[i].op = op /\ calls[i].out # "ok"

\* The handler named by the command has returned or let an exception out.
HandlerLeft == pc \in {"print", "main_except", "exited"}

Printed == stdout[1]

TopLevelTookOver == Len(stdout) = 1 /\ "traceback" \in DOMAIN Printed

(***************************************************************************)
(* C1: in the test command, whenever pyodbc.connect succeeded, a close of  *)
(* the connection has been issued by the time test_connection returns or   *)
(* lets an exception out, on every path.                                   *)
(***************************************************************************)
C1_TestClosesOnEveryPath ==
    (Connector /\ command = CmdTest /\ HandlerLeft /\ ConnectOk) => CloseIssued

(***************************************************************************)
(* C2: in the query command, whenever pyodbc.connect succeeded, a close of *)
(* that connection has been issued before execute_query returns or         *)
(* propagates, on every path; and the finally clause, whatever its close   *)
(* does, leaves the returned envelope (or the propagating exception) as it *)
(* was.                                                                    *)
(***************************************************************************)
QueryCloseIssued ==
    (Connector /\ command = CmdQuery /\ HandlerLeft /\ ConnectOk) => CloseIssued

FinallyKeepsOutcome ==
    pc = "query_finally" =>
        /\ result' = result
        /\ exc' = exc
        /\ pc' = (IF pending = "return" THEN "print" ELSE "main_except")

C2_QueryClosesOnEveryPath == []QueryCloseIssued /\ [][FinallyKeepsOutcome]_vars

\* cursor creation raised, the handler built the failure envelope, and the
\* close issued by the finally clause raised too; the envelope was printed.
C2_Witness ==
    /\ Connector /\ command = CmdQuery /\ pc = "exited"
    /\ Len(calls) = 3
    /\ calls[2].op = "cursor" /\ calls[2].out = "Exception"
    /\ calls[3].op = "connection.close" /\ calls[3].arg = "finally"
    /\ calls[3].out = "Error"
    /\ Printed = QueryFailure(exc)

(***************************************************************************)
(* C3: in the query command, when connect and execute succeed and fetchall *)
(* raises the driver's "no results to fetch" programming error, the        *)
(* response is success:true with data = [] and row_count = 0; any other    *)
(* exception during connect, execute or fetch gives success:false.         *)
(***************************************************************************)
FetchRaisedNoResults ==
    \E i \in 1..Len(calls) : calls[i].op = "fetchall" /\ calls[i].out = "ProgrammingError"

C3_NoResultsIsEmptySuccess ==
    (Connector /\ command = CmdQuery /\ pc = "exited" /\ ~TopLevelTookOver) =>
        /\ FetchRaisedNoResults =>
              /\ Printed.success = TRUE
              /\ Printed.data = <<>>
              /\ Printed.row_count = 0
        /\ ((Raised("connect") \/ Raised("execute") \/ Raised("fetchall"))
               /\ ~FetchRaisedNoResults) => Printed.success = FALSE

(***************************************************************************)
(* C4: for every command other than test, query, drivers and check (after  *)
(* lower-casing), main prints one envelope with success:false whose error  *)
(* lists the valid commands, attempts no connection, and the exit status   *)
(* is non-zero.                                                            *)
(***************************************************************************)
UnknownCommand == Len(argv) >= 2 /\ Lower(argv[2]) \notin ValidCommands

C4_UnknownCommandExitsNonZero ==
    (Connector /\ pc = "exited" /\ UnknownCommand) =>
        /\ Len(stdout) = 1
        /\ Printed.success = FALSE
        /\ Printed.error = UnknownCommandText
        /\ calls = <<>>
        /\ exit_status # 0

(***************************************************************************)
(* C5: the exit status is 0 whenever a command handler ran and its         *)
(* envelope was printed normally, one non-zero code when there is no       *)
(* command argument, and a different non-zero code when an exception       *)
(* reached the top-level handler of main.                                  *)
(***************************************************************************)
C5_ExitStatusSeparatesClasses ==
    (Connector /\ pc = "exited") =>
        /\ (Len(argv) >= 2 /\ ~TopLevelTookOver) => exit_status = 0
        /\ Len(argv) < 2 => (exit_status = UsageExit /\ exit_status # 0)
        /\ TopLevelTookOver => (exit_status # 0 /\ exit_status # UsageExit)

(***************************************************************************)
(* C6: for every successful return of execute_query, row_count is the      *)
(* number of entries of data, data has one entry per fetched row in fetch  *)
(* order, and when columns is not empty the keys of every row of data are  *)
(* exactly the names in columns, in the same order.                        *)
(***************************************************************************)
C6_RowKeysAreColumns ==
    (Connector /\ pc = "query_finally" /\ pending = "return"
       /\ "data" \in DOMAIN result) =>
        /\ result.row_count = Len(result.data)
        /\ Len(result.data) = Len(rows)
        /\ \A i \in 1..Len(result.data) :
              \A k \in 1..Len(result.data[i]) :
                 \E j \in 1..Len(rows[i]) :
                    /\ j <= Len(result.columns)
                    /\ result.data[i][k][1] = result.columns[j]
                    /\ result.data[i][k][2] = StrOf(rows[i][j])
        /\ result.columns # <<>> =>
              \A i \in 1..Len(result.data) : Keys(result.data[i]) = result.columns

(***************************************************************************)
(* C7: every invocation of pyodbc_connector.py writes exactly one envelope *)
(* to standard output before the process ends: nothing is written twice,   *)
(* nothing is written before the run reaches its single print, every run   *)
(* that has not exited can still take a step, and a run that has exited    *)
(* has written exactly one envelope.                                       *)
(***************************************************************************)
C7_ExactlyOneEnvelope ==
    Connector =>
        /\ Len(stdout) <= 1
        /\ pc = "exited" => Len(stdout) = 1
        /\ pc # "exited" => (Len(stdout) = 0 /\ ENABLED Next)

\* Serializing the handler's result raised and the top-level handler printed
\* the only envelope.
C7_Witness ==
    /\ Connector /\ pc = "exited"
    /\ "success" \in DOMAIN result
    /\ exc = TypeError
    /\ stdout = <<ScriptError(TypeError)>>

(***************************************************************************)
(* C8 as stated: with pyodbc absent, no connection or driver call is       *)
(* attempted, no exception reaches the top-level handler, test, query and  *)
(* drivers print success:false with the install hint, check prints         *)
(* success:true with pyodbc_available false, and the exit status is 0.     *)
(***************************************************************************)
AbsentNeverCalls ==
    (Connector /\ ~PYODBC_AVAILABLE) => (calls = <<>> /\ pc # "main_except")

AbsentEnvelope ==
    /\ Len(stdout) = 1
    /\ exit_status = 0
    /\ command \in {CmdTest, CmdQuery, CmdDrivers} =>
          (Printed.success = FALSE /\ Printed.error = InstallHint)
    /\ command = CmdCheck =>
          (Printed.success = TRUE /\ Printed.pyodbc_available = FALSE)

C8_AbsentCapabilityAnyArguments ==
    /\ AbsentNeverCalls
    /\ (Connector /\ ~PYODBC_AVAILABLE /\ pc = "exited" /\ command \in ValidCommands)
          => AbsentEnvelope

(***************************************************************************)
(* C8 amended: the same, for test and query invoked with their required    *)
(* arguments (a connection string; a connection string and a statement);   *)
(* with fewer, the usage envelope is printed instead of the install hint.  *)
(***************************************************************************)
HasRequiredArgs ==
    /\ command = CmdTest => Len(argv) >= 3
    /\ command = CmdQuery => Len(argv) >= 4

C8_AbsentCapability ==
    /\ AbsentNeverCalls
    /\ (Connector /\ ~PYODBC_AVAILABLE /\ pc = "exited" /\ command \in ValidCommands
          /\ HasRequiredArgs) => AbsentEnvelope
    /\ (Connector /\ ~PYODBC_AVAILABLE /\ pc = "exited" /\ command \in ValidCommands
          /\ ~HasRequiredArgs) =>
            (exit_status = 0 /\ Printed.success = FALSE
               /\ Printed.error \in {UsageTest, UsageQuery})

C8_Witness ==
    /\ Connector /\ ~PYODBC_AVAILABLE /\ pc = "exited"
    /\ command = CmdQuery /\ Len(argv) >= 4
    /\ stdout = <<HandlerUnavailable>>
    /\ exit_status = 0

(***************************************************************************)
(* C9: in pyodbc_fallback.py, whenever pyodbc.connect succeeded, a close   *)
(* of the connection has been issued before main returns, with any status. *)
(***************************************************************************)
C9_FallbackClosesOnEveryPath ==
    (script = "pyodbc_fallback" /\ pc = "exited" /\ ConnectOk) => CloseIssued

(***************************************************************************)
(* C10: the order of the probes of test_connection, common to the claim as *)
(* stated and as amended: connect is attempted once; each probe statement  *)
(* is executed at most once; the second probe is executed only after a     *)
(* call of the first probe raised a driver error; no probe is executed     *)
(* when connect failed.                                                    *)
(***************************************************************************)
\* test_connection returned its result (pc = "print"), or let the exception
\* of its error handler out to main without a result.
TestReturned ==
    /\ Connector /\ command = CmdTest /\ PYODBC_AVAILABLE /\ Len(argv) >= 3
    /\ \/ pc = "print"
       \/ pc = "main_except" /\ result = NoResult

ProbeOrder ==
    (Connector /\ command = CmdTest) =>
        /\ CountCalls("connect") <= 1
        /\ TestReturned => CountCalls("connect") = 1
        /\ CountExecutes(Probe1) <= 1
        /\ CountExecutes(Probe2) <= 1
        /\ \A j \in 1..Len(calls) :
              (calls[j].op = "execute" /\ calls[j].arg = Probe2) =>
                  \E i \in 1..(j - 1) :
                      /\ IsProbeCall(calls[i]) /\ calls[i].arg = Probe1
                      /\ calls[i].out \in DriverErrors
        /\ ~ConnectOk => \A i \in 1..Len(calls) : ~IsProbeCall(calls[i])

\* Every probe call returned or was rejected with a driver error.
ProbesAnsweredOrRejected ==
    \A i \in 1..Len(calls) :
        IsProbeCall(calls[i]) => calls[i].out \in {"ok"} \cup DriverErrors

\* No call other than a probe raised.
OnlyProbesRaised ==
    \A i \in 1..Len(calls) : ~IsProbeCall(calls[i]) => calls[i].out = "ok"

ReturnedSuccess ==
    pc = "print" /\ result.success = TRUE /\ result.connected = TRUE

ReturnedFailure ==
    pc = "print" /\ result.success = FALSE /\ result.connected = FALSE

(***************************************************************************)
(* C10 as stated: the probe order, and the result is success:true,         *)
(* connected:true whenever test_connection returns after connect succeeded *)
(* and each probe succeeded or was rejected with a driver error, and the   *)
(* result returned is success:false, connected:false whenever connect      *)
(* failed.                                                                 *)
(***************************************************************************)
C10_ProbeOrderAndResultAsStated ==
    /\ ProbeOrder
    /\ (TestReturned /\ pc = "print" /\ ConnectOk /\ ProbesAnsweredOrRejected)
          => ReturnedSuccess
    /\ (TestReturned /\ pc = "print" /\ ~ConnectOk) => ReturnedFailure

(***************************************************************************)
(* C10 amended: the probe order, and the result is success:true,           *)
(* connected:true whenever connect succeeded, each probe succeeded or was  *)
(* rejected with a driver error and no other call (cursor creation,        *)
(* cursor.close, connection.close) raised; whenever connect failed the     *)
(* result returned is success:false, connected:false (the one other way    *)
(* out is the error handler raising IndexError on a driver error with      *)
(* empty args, which reaches main without a result); and success:true is   *)
(* returned in no other case than the first.                               *)
(***************************************************************************)
C10_ProbeOrderAndResult ==
    /\ ProbeOrder
    /\ (TestReturned /\ ConnectOk /\ ProbesAnsweredOrRejected /\ OnlyProbesRaised)
          => ReturnedSuccess
    /\ (TestReturned /\ ~ConnectOk) =>
          \/ ReturnedFailure
          \/ pc = "main_except" /\ exc = IndexError
    /\ (TestReturned /\ pc = "print" /\ result.success = TRUE) =>
          (ConnectOk /\ ProbesAnsweredOrRejected /\ OnlyProbesRaised)

\* Both probes were rejected with a driver error and the test succeeded.
C10_Witness ==
    /\ TestReturned /\ ReturnedSuccess
    /\ \E i \in 1..Len(calls) :
          calls[i].op = "execute" /\ calls[i].arg = Probe1 /\ calls[i].out = "Error"
    /\ \E i \in 1..Len(calls) :
          calls[i].op = "execute" /\ calls[i].arg = Probe2 /\ calls[i].out = "ProgrammingError"

====
